---- MODULE Spec2Model ----
(***************************************************************************)
(* Ecotracks dashboard (app.py): a script that is re-run from top to       *)
(* bottom on every user interaction.  A render pass reads the widget       *)
(* values (navigation radio, factor filter), the availability flag of the  *)
(* diagram library and the literal data tables, and emits widgets.         *)
(*                                                                         *)
(* Text is modelled as a sequence of one-character strings.  Emission      *)
(* totals are modelled in hundredths of a tCO2e (46.46 -> 4646): every     *)
(* literal of the source has at most two decimals, and none of the         *)
(* products total * 40 lies within rounding distance of an integer other   *)
(* than the two that are exact in binary (0.50, 14.25).                    *)
(***************************************************************************)
EXTENDS Integers, Sequences, FiniteSets, TLC

VARIABLES
    has_graphviz,   \* app.py:10-14, result of `import graphviz`
    logo_exists,    \* app.py:100, os.path.exists("logo.png")
    selected_page,  \* app.py:118, value of the navigation radio
    filtro,         \* app.py:224, text typed in the factor filter
    previous,       \* what the pass before the last one did (history variable)
    screen          \* everything the last render pass produced

vars == <<has_graphviz, logo_exists, selected_page, filtro, previous, screen>>

\* Bound of the exploration: length of the filters built from FilterAlphabet.
MaxFilterLen == 2

-----------------------------------------------------------------------------
(* Navigation labels, app.py:120 *)

PanelDeControl == "Panel de Control"
GestorDeFactores == "Gestor de Factores"
IngenieriaDePreguntas == "Ingeniería de Preguntas"
ReportesISO == "Reportes ISO 14064"

Pages == <<PanelDeControl, GestorDeFactores, IngenieriaDePreguntas, ReportesISO>>

PageSet == {Pages[i] : i \in 1..Len(Pages)}

-----------------------------------------------------------------------------
(* Fixed data tables *)

\* get_regional_data with one literal mistyped (9.70 for 9.07).
get_regional_totals_typo ==
    << [Regional |-> "GRB",      Total |-> 50],
       [Regional |-> "CATENARE", Total |-> 1425],
       [Regional |-> "VRC",      Total |-> 4646],
       [Regional |-> "GGS",      Total |-> 2834],
       [Regional |-> "VRO",      Total |-> 3631],
       [Regional |-> "GOR",      Total |-> 1316],
       [Regional |-> "VAO",      Total |-> 970],
       [Regional |-> "CEDI",     Total |-> 38] >>

\* The literal columns of get_regional_data, totals in hundredths of a tCO2e.
get_regional_totals ==
    << [Regional |-> "GRB",      Total |-> 50],
       [Regional |-> "CATENARE", Total |-> 1425],
       [Regional |-> "VRC",      Total |-> 4646],
       [Regional |-> "GGS",      Total |-> 2834],
       [Regional |-> "VRO",      Total |-> 3631],
       [Regional |-> "GOR",      Total |-> 1316],
       [Regional |-> "VAO",      Total |-> 907],
       [Regional |-> "CEDI",     Total |-> 38] >>

\* Trees per tCO2e.
TreeRatio == 40

\* int(x * 40) computed by rounding to nearest instead of truncating.
TreeEquivalentRounded(total) == (total * TreeRatio + 50) \div 100

\* int(total * 40): truncation of a non-negative product; `total` is in
\* hundredths, the result in whole trees.
TreeEquivalent(total) == (total * TreeRatio) \div 100

\* The derived columns of get_regional_data.  The scope columns are kept in
\* ten-thousandths of a tCO2e so that total * 0.75 etc. stay integral.
get_regional_data ==
    [i \in 1..Len(get_regional_totals) |->
        LET r == get_regional_totals[i] IN
        [Regional |-> r.Regional,
         Total    |-> r.Total,
         Alcance1 |-> r.Total * 75,
         Alcance2 |-> r.Total * 15,
         Alcance3 |-> r.Total * 10,
         Arboles  |-> TreeEquivalent(r.Total)]]

\* total_huella, app.py:74, in hundredths.
TotalHuella == 14847

get_general_indicators ==
    [HuellaTotal    |-> TotalHuella,
     MetaReduccion  |-> 14105,
     Alcance1Pct    |-> 75,
     Alcance2Pct    |-> 15,
     Alcance3Pct    |-> 10,
     ArbolesTotales |-> TreeEquivalent(TotalHuella)]

\* The ID and Nombre columns of get_factors_data (the other columns are
\* carried through the filter untouched and never read).
get_factors_data ==
    << [ID |-> "F-001", Nombre |-> <<"D","i","é","s","e","l"," ","(","A","C","P","M",")">>],
       [ID |-> "F-002", Nombre |-> <<"G","a","s","o","l","i","n","a"," ","C","o","r","r","i","e","n","t","e">>],
       [ID |-> "F-003", Nombre |-> <<"S","I","N"," ","C","o","l","o","m","b","i","a">>],
       [ID |-> "F-004", Nombre |-> <<"R","-","4","1","7","B">>],
       [ID |-> "F-005", Nombre |-> <<"P","a","p","e","l"," ","B","l","a","n","c","o">>] >>

-----------------------------------------------------------------------------
(* Series.str.contains(filtro, case=False): the pattern is compiled as a   *)
(* regular expression (regex=True is the default) with re.IGNORECASE and   *)
(* searched in every name.  The fragment modelled: literal characters,     *)
(* "." (any character; no name holds a newline) and "(" ")" grouping.      *)

UpperCase == <<"A","B","C","D","E","F","G","H","I","J","K","L","M",
               "N","O","P","Q","R","S","T","U","V","W","X","Y","Z","É">>

LowerCase == <<"a","b","c","d","e","f","g","h","i","j","k","l","m",
               "n","o","p","q","r","s","t","u","v","w","x","y","z","é">>

\* Case folding of one character.
Lower(c) ==
    IF \E i \in 1..Len(UpperCase) : UpperCase[i] = c
    THEN LowerCase[CHOOSE i \in 1..Len(UpperCase) : UpperCase[i] = c]
    ELSE c

\* Nesting depth after reading pat[i..]; -1 once a ")" closes nothing.
RECURSIVE ParenDepth(_, _, _)
ParenDepth(pat, i, depth) ==
    IF i > Len(pat) THEN depth
    ELSE IF pat[i] = "(" THEN ParenDepth(pat, i + 1, depth + 1)
    ELSE IF pat[i] = ")" THEN
        IF depth = 0 THEN -1 ELSE ParenDepth(pat, i + 1, depth - 1)
    ELSE ParenDepth(pat, i + 1, depth)

\* re.compile raises re.error: "unbalanced parenthesis" or
\* "missing ), unterminated subpattern".
re_error(pat) == ParenDepth(pat, 1, 0) # 0

\* The characters the compiled pattern consumes, in order: a group without
\* alternation or quantifier matches the concatenation of its content.
re_atoms(pat) == SelectSeq(pat, LAMBDA c : c \notin {"(", ")"})

\* One pattern character against one subject character under IGNORECASE.
re_char(p, c) == p = "." \/ Lower(p) = Lower(c)

\* re.search(pat, s, re.IGNORECASE) is not None, for a pattern that compiles.
re_search(pat, s) ==
    LET atoms == re_atoms(pat) IN
    \E i \in 0..(Len(s) - Len(atoms)) :
        \A j \in 1..Len(atoms) : re_char(atoms[j], s[i + j])

\* The filter applied with regex=False: a plain case-insensitive substring.
str_contains_literal(s, pat) ==
    \E i \in 0..(Len(s) - Len(pat)) :
        \A j \in 1..Len(pat) : Lower(pat[j]) = Lower(s[i + j])

\* df['Nombre'].str.contains(filtro, case=False) for one name.
str_contains(s, pat) == re_search(pat, s)

-----------------------------------------------------------------------------
(* The record a render pass produces.  Fields a view does not compute are  *)
(* left at their empty value.                                              *)

Blank ==
    [widgets        |-> <<>>,    \* the view's widgets, in emission order
     dispatched     |-> <<>>,    \* the branches of the if/elif chain taken
     raised         |-> FALSE,   \* an exception escaped the script
     graph_attempts |-> 0,       \* executions of the graphviz try block
     graph_fault    |-> FALSE,   \* the try block raised
     graph          |-> [nodes |-> {}, edges |-> {}],
     df_factors     |-> <<>>,    \* rows bound to df_factors at the end
     df_reg         |-> <<>>,    \* rows of the detail table
     df_reg_sorted  |-> <<>>,    \* rows feeding the stacked bar chart
     top_regional   |-> "",
     gen_data       |-> [HuellaTotal |-> 0, MetaReduccion |-> 0,
                         Alcance1Pct |-> 0, Alcance2Pct |-> 0,
                         Alcance3Pct |-> 0, ArbolesTotales |-> 0]]

\* The factor view filtering, when the previous pass was a factor view too,
\* the rows that pass left instead of a fresh get_factors_data().
RenderGestorInPlace(f) ==
    LET head == <<"markdown:Gestion centralizada", "text_input:Buscar factor">>
        rows == IF screen.dispatched = <<"RenderGestor">>
                THEN screen.view.df_factors ELSE get_factors_data
    IN
    IF f # <<>> /\ re_error(f)
    THEN [Blank EXCEPT
            !.widgets = head \o <<"exception:re.error">>,
            !.raised = TRUE,
            !.df_factors = rows]
    ELSE [Blank EXCEPT
            !.widgets = head \o <<"dataframe:df_factors", "warning:Nota de Seguridad">>,
            !.df_factors =
                IF f # <<>>
                THEN SelectSeq(rows, LAMBDA r : str_contains(r.Nombre, f))
                ELSE rows]

\* 2. GESTOR DE FACTORES
RenderGestor(f) ==
    LET head == <<"markdown:Gestion centralizada", "text_input:Buscar factor">> IN
    IF f # <<>> /\ re_error(f)
    THEN [Blank EXCEPT
            !.widgets = head \o <<"exception:re.error">>,
            !.raised = TRUE,
            !.df_factors = get_factors_data]
    ELSE [Blank EXCEPT
            !.widgets = head \o <<"dataframe:df_factors", "warning:Nota de Seguridad">>,
            !.df_factors =
                IF f # <<>>
                THEN SelectSeq(get_factors_data,
                               LAMBDA r : str_contains(r.Nombre, f))
                ELSE get_factors_data]

Badges ==
    <<"success:Prevencion de Error", "success:Calculo Automatico", "success:Auditoria">>

PreguntasHead ==
    <<"markdown:Arbol de Decision Logica", "write:Diagrama de flujo logico">>

\* The decision-tree view without the has_graphviz test: the diagram is
\* always built, and a fault in it is not caught.
RenderPreguntasUnguarded(flag, fault) ==
    IF ~fault
    THEN [Blank EXCEPT
            !.widgets = PreguntasHead \o <<"graphviz_chart:graph">> \o Badges,
            !.graph_attempts = 1]
    ELSE [Blank EXCEPT
            !.widgets = PreguntasHead \o <<"exception:graphviz">>,
            !.raised = TRUE,
            !.graph_attempts = 1,
            !.graph_fault = TRUE]

\* 3. INGENIERIA DE PREGUNTAS.  `fault` says whether the try block raises.
RenderPreguntas(flag, fault) ==
    LET head == PreguntasHead
        badges == Badges
        diagram == [nodes |-> {"A", "B", "C", "D", "E", "F", "G"},
                    edges |-> {<<"A","B">>, <<"A","C">>, <<"B","D">>,
                               <<"C","E">>, <<"D","F">>, <<"E","G">>}]
    IN
    IF flag
    THEN IF ~fault
         THEN [Blank EXCEPT
                 !.widgets = head \o <<"graphviz_chart:graph">> \o badges,
                 !.graph_attempts = 1,
                 !.graph = diagram]
         ELSE [Blank EXCEPT
                 !.widgets = head \o <<"warning:no pudo renderizar el diagrama",
                                       "info:Flujo: Propiedad -> Si / No -> Vehiculo -> Combustible">>
                                  \o badges,
                 !.graph_attempts = 1,
                 !.graph_fault = TRUE]
    ELSE [Blank EXCEPT
            !.widgets = head \o <<"warning:Libreria Graphviz no detectada",
                                  "info:visualizacion simplificada a texto",
                                  "code:Flujo Logico">>
                             \o badges]

\* Series.idxmax: position of the first occurrence of the maximum.
idxmax(rows) ==
    CHOOSE i \in 1..Len(rows) :
        /\ \A j \in 1..Len(rows) : rows[j].Total <= rows[i].Total
        /\ \A j \in 1..(i - 1) : rows[j].Total < rows[i].Total

\* Position of the first occurrence of the minimum.
idxmin(rows) ==
    CHOOSE i \in 1..Len(rows) :
        /\ \A j \in 1..Len(rows) : rows[j].Total >= rows[i].Total
        /\ \A j \in 1..(i - 1) : rows[j].Total > rows[i].Total

Remove(rows, i) == SubSeq(rows, 1, i - 1) \o SubSeq(rows, i + 1, Len(rows))

\* sort_values(by="Total") with the default ascending=True.
RECURSIVE sort_values_asc(_)
sort_values_asc(rows) ==
    IF rows = <<>> THEN <<>>
    ELSE <<rows[idxmin(rows)]>> \o sort_values_asc(Remove(rows, idxmin(rows)))

\* sort_values(by="Total", ascending=False): a new frame, the argument is
\* left as it was.  (The totals are pairwise distinct, so the order among
\* equal keys, which the default quicksort does not fix, never matters.)
RECURSIVE sort_values(_)
sort_values(rows) ==
    IF rows = <<>> THEN <<>>
    ELSE <<rows[idxmax(rows)]>> \o sort_values(Remove(rows, idxmax(rows)))

\* 1. PANEL DE CONTROL
RenderPanel ==
    LET df_reg == get_regional_data IN
    [Blank EXCEPT
        !.widgets = <<"metric:Factores Activos", "metric:Transacciones Totales",
                      "metric:Equivalencia Arboles", "metric:Calidad de Datos",
                      "markdown:Tablero de Mando", "write:Visualizacion consolidada",
                      "tabs:Por Regional/General",
                      "subheader:Distribucion de Huella", "plotly_chart:fig_reg",
                      "markdown:Top Contribuyente", "error:top_regional",
                      "caption:Emision", "markdown:Detalle", "dataframe:df_reg",
                      "markdown:Huella/Meta/Arboles",
                      "subheader:Participacion por Alcance", "plotly_chart:fig_pie",
                      "subheader:Indicadores de Desempeno", "progress:Alcance 1",
                      "caption:fuentes directas", "write:", "progress:95",
                      "caption:reduccion">>,
        !.gen_data = get_general_indicators,
        !.df_reg = df_reg,
        !.df_reg_sorted = sort_values(df_reg),
        !.top_regional = df_reg[idxmax(df_reg)].Regional]

\* 4. REPORTES ISO 14064
RenderReportes ==
    [Blank EXCEPT
        !.widgets = <<"markdown:Informe de Desempeno por Alcance",
                      "tabs:Alcance 1/Alcance 2/Alcance 3",
                      "metric:Total Alcance 1", "info:Fuente Principal",
                      "plotly_chart:fig_a1",
                      "metric:Total Alcance 2", "info:Fuente", "progress:100",
                      "metric:Total Alcance 3", "plotly_chart:fig_a3",
                      "markdown:---", "download_button:reporte.pdf">>]

\* Sidebar and page header, emitted before the view on every pass.
Shell(page, logo) ==
    <<IF logo THEN "image:logo.png" ELSE "markdown:svg MASSY ENERGY">>
    \o <<"title:ECOTRACKS", "markdown:Enterprise Carbon Mgmt.", "markdown:---",
         "radio:Navegacion", "markdown:---", "caption:Configuracion v1.0.4",
         "caption:Massy Energy Colombia",
         "title:" \o page, "markdown:Proyecto", "info:Usuario: Admin HSE",
         "markdown:---">>

\* The if/elif chain with the last label misspelt.
ViewsOfTypo(page) ==
    IF page = PanelDeControl THEN <<"RenderPanel">>
    ELSE IF page = GestorDeFactores THEN <<"RenderGestor">>
    ELSE IF page = IngenieriaDePreguntas THEN <<"RenderPreguntas">>
    ELSE IF page = "Reportes ISO 14046" THEN <<"RenderReportes">>
    ELSE <<>>

\* The if/elif chain on selected_page: the views it runs, in order.
ViewsOf(page) ==
    IF page = PanelDeControl THEN <<"RenderPanel">>
    ELSE IF page = GestorDeFactores THEN <<"RenderGestor">>
    ELSE IF page = IngenieriaDePreguntas THEN <<"RenderPreguntas">>
    ELSE IF page = ReportesISO THEN <<"RenderReportes">>
    ELSE <<>>

\* One run of the script.
RenderPass(page, f, flag, logo, fault) ==
    LET views == ViewsOf(page)
        body == IF views = <<>> THEN Blank
                ELSE IF views[1] = "RenderPanel" THEN RenderPanel
                ELSE IF views[1] = "RenderGestor" THEN RenderGestor(f)
                ELSE IF views[1] = "RenderPreguntas" THEN RenderPreguntas(flag, fault)
                ELSE RenderReportes
    IN  [shell |-> Shell(page, logo), dispatched |-> views, view |-> body]

-----------------------------------------------------------------------------
(* User inputs of the exploration *)

FilterAlphabet == {"e", "L", ".", "(", ")"}

RECURSIVE StringsUpTo(_)
StringsUpTo(n) ==
    IF n = 0 THEN {<<>>}
    ELSE LET shorter == StringsUpTo(n - 1) IN
         shorter \cup {Append(s, c) : s \in shorter, c \in FilterAlphabet}

NamedFilters ==
    { <<"d","i","e","s","e","l">>,
      <<"D","i","e","s","e","l">>,
      <<"D","I","É","S","E","L">>,
      <<"G","a","s","o","l","i","n","a">>,
      <<"x","y","z">>,
      <<"(","A","C","P","M",")">>,
      <<"R","-","4">> }

Filters == StringsUpTo(MaxFilterLen) \cup NamedFilters

\* What is remembered of a pass once the next one has replaced its output.
Summary(page, scr) ==
    [page        |-> page,
     graph_fault |-> scr.view.graph_fault,
     rows        |-> Len(scr.view.df_factors)]

NoPass == [page |-> "", graph_fault |-> FALSE, rows |-> 0]

\* The try block can only raise where it is executed.
Faults(page, flag) ==
    IF page = IngenieriaDePreguntas /\ flag THEN BOOLEAN ELSE {FALSE}

-----------------------------------------------------------------------------
(* State machine *)

Init ==
    /\ has_graphviz \in BOOLEAN
    /\ logo_exists \in BOOLEAN
    /\ selected_page = Pages[1]
    /\ filtro = <<>>
    /\ previous = NoPass
    /\ screen = RenderPass(Pages[1], <<>>, has_graphviz, logo_exists, FALSE)

\* The user picks another label of the radio; the script runs again.  The
\* filter box is created anew by the pass that shows it, so it starts empty.
Select(page) ==
    /\ page # selected_page
    /\ selected_page' = page
    /\ filtro' = <<>>
    /\ previous' = Summary(selected_page, screen)
    /\ \E fault \in Faults(page, has_graphviz) :
          screen' = RenderPass(page, <<>>, has_graphviz, logo_exists, fault)
    /\ UNCHANGED <<has_graphviz, logo_exists>>

\* The user submits a text in the filter box of the factor view.
TypeFilter(f) ==
    /\ selected_page = GestorDeFactores
    /\ f # filtro
    /\ filtro' = f
    /\ previous' = Summary(selected_page, screen)
    /\ screen' = RenderPass(selected_page, f, has_graphviz, logo_exists, FALSE)
    /\ UNCHANGED <<has_graphviz, logo_exists, selected_page>>

\* The script runs again with the widget values it had (rerun command,
\* download button).
Rerun ==
    /\ \E fault \in Faults(selected_page, has_graphviz) :
          screen' = RenderPass(selected_page, filtro, has_graphviz, logo_exists, fault)
    /\ previous' = Summary(selected_page, screen)
    /\ UNCHANGED <<has_graphviz, logo_exists, selected_page, filtro>>

Next ==
    \/ \E page \in PageSet : Select(page)
    \/ \E f \in Filters : TypeFilter(f)
    \/ Rerun

Spec == Init /\ [][Next]_vars

-----------------------------------------------------------------------------
(* Properties *)

Widgets == screen.view.widgets

Shows(w) == \E i \in 1..Len(Widgets) : Widgets[i] = w

Column(rows, name) == [i \in 1..Len(rows) |-> rows[i][name]]

OnPage(page) == selected_page = page

FactorIDs == <<"F-001", "F-002", "F-003", "F-004", "F-005">>

RegionOrder == <<"GRB", "CATENARE", "VRC", "GGS", "VRO", "GOR", "VAO", "CEDI">>

RegionTotals == <<50, 1425, 4646, 2834, 3631, 1316, 907, 38>>

RECURSIVE SumSeq(_)
SumSeq(xs) == IF xs = <<>> THEN 0 ELSE Head(xs) + SumSeq(Tail(xs))

\* C1: in the factor view the rows shown are exactly the rows whose name
\* holds the filter as a literal substring, compared case-insensitively,
\* for every filter; the pass never fails.
C1_FilterIsLiteralSubstring ==
    OnPage(GestorDeFactores) =>
        /\ ~screen.view.raised
        /\ Shows("dataframe:df_factors")
        /\ screen.view.df_factors =
              SelectSeq(get_factors_data,
                        LAMBDA r : str_contains_literal(r.Nombre, filtro))

\* C2: filter "diesel" shows exactly row F-001, filter "" shows all five
\* rows, filter "xyz" shows an empty table without failing.
C2_FilterExamples ==
    OnPage(GestorDeFactores) =>
        /\ filtro = <<"d","i","e","s","e","l">> =>
              /\ ~screen.view.raised
              /\ Column(screen.view.df_factors, "ID") = <<"F-001">>
        /\ filtro = <<>> =>
              /\ ~screen.view.raised
              /\ Column(screen.view.df_factors, "ID") = FactorIDs
        /\ filtro = <<"x","y","z">> =>
              /\ ~screen.view.raised
              /\ Shows("dataframe:df_factors")
              /\ screen.view.df_factors = <<>>

\* C3: with the availability flag false, every pass of the decision-tree
\* view shows the notice and the textual flow summary and never runs the
\* graphical rendering.
C3_UnavailableIsTextual ==
    (OnPage(IngenieriaDePreguntas) /\ ~has_graphviz) =>
        /\ screen.view.graph_attempts = 0
        /\ ~Shows("graphviz_chart:graph")
        /\ Shows("warning:Libreria Graphviz no detectada")
        /\ Shows("info:visualizacion simplificada a texto")
        /\ Shows("code:Flujo Logico")

C3_Witness ==
    /\ OnPage(IngenieriaDePreguntas)
    /\ ~has_graphviz
    /\ previous.page = IngenieriaDePreguntas
    /\ Shows("code:Flujo Logico")

\* C4: with the flag true, a fault while building or rendering the diagram
\* is caught: the pass shows the textual summary instead of the diagram,
\* no exception reaches the user, the diagram is tried once, and the three
\* badges are still rendered.
C4_FaultFallsBackToText ==
    (OnPage(IngenieriaDePreguntas) /\ has_graphviz /\ screen.view.graph_fault) =>
        /\ Shows("info:Flujo: Propiedad -> Si / No -> Vehiculo -> Combustible")
        /\ ~Shows("graphviz_chart:graph")
        /\ ~screen.view.raised
        /\ \A i \in 1..Len(Widgets) :
              Widgets[i] \notin {"exception:graphviz", "exception:re.error",
                                 "error:top_regional"}
        /\ screen.view.graph_attempts = 1
        /\ Len(Widgets) >= 3
        /\ SubSeq(Widgets, Len(Widgets) - 2, Len(Widgets)) = Badges

C4_Witness ==
    /\ OnPage(IngenieriaDePreguntas)
    /\ has_graphviz
    /\ screen.view.graph_fault
    /\ Shows("success:Auditoria")

\* C5: every pass runs to completion and produces output for the selected
\* view, whatever the navigation, the filter, the flag and the fault.
C5_AlwaysRenders ==
    /\ ~screen.view.raised
    /\ Len(screen.dispatched) = 1
    /\ Len(Widgets) > 0

\* C6: the radio has four labels, and every pass runs exactly one view,
\* the one of the selected label, whatever was selected before.
C6_ExactlyOneView ==
    /\ Len(Pages) = 4
    /\ Cardinality(PageSet) = 4
    /\ selected_page \in PageSet
    /\ Len(screen.dispatched) = 1
    /\ OnPage(PanelDeControl) =>
          screen.dispatched[1] = "RenderPanel" /\ Widgets[1] = "metric:Factores Activos"
    /\ OnPage(GestorDeFactores) =>
          screen.dispatched[1] = "RenderGestor" /\ Widgets[1] = "markdown:Gestion centralizada"
    /\ OnPage(IngenieriaDePreguntas) =>
          screen.dispatched[1] = "RenderPreguntas" /\ Widgets[1] = "markdown:Arbol de Decision Logica"
    /\ OnPage(ReportesISO) =>
          screen.dispatched[1] = "RenderReportes" /\ Widgets[1] = "markdown:Informe de Desempeno por Alcance"

C6_Witness ==
    /\ OnPage(ReportesISO)
    /\ previous.page = GestorDeFactores
    /\ screen.dispatched = <<"RenderReportes">>

\* C7: a pass changes no process-wide state: the availability flag keeps
\* its value (also across a caught diagram fault), and a later pass sees
\* the factor table and the region table with their original rows,
\* whatever was filtered before.
C7_PassesLeaveStateAlone ==
    [][ /\ has_graphviz' = has_graphviz
        /\ (selected_page' = GestorDeFactores /\ filtro' = <<>>) =>
              /\ Column(screen'.view.df_factors, "ID") = FactorIDs
              /\ Column(screen'.view.df_factors, "Nombre")
                    = Column(get_factors_data, "Nombre")
        /\ (selected_page' = PanelDeControl) =>
              /\ Column(screen'.view.df_reg, "Regional") = RegionOrder
              /\ Column(screen'.view.df_reg, "Total") = RegionTotals
      ]_vars

C7_Witness ==
    /\ has_graphviz
    /\ OnPage(GestorDeFactores)
    /\ filtro = <<>>
    /\ previous.page = GestorDeFactores
    /\ previous.rows < 5
    /\ Len(screen.view.df_factors) = 5

\* C8: every region's tree-equivalent is floor(total * 40) (46.46 gives
\* 1858) and the overall tree-equivalent is floor(148.47 * 40) = 5938.
C8_TreeEquivalents ==
    OnPage(PanelDeControl) =>
        /\ Len(screen.view.df_reg) = 8
        /\ \A i \in 1..Len(screen.view.df_reg) :
              LET r == screen.view.df_reg[i] IN
              /\ r.Arboles * 100 <= r.Total * 40
              /\ r.Total * 40 < (r.Arboles + 1) * 100
              /\ r.Total = 4646 => r.Arboles = 1858
        /\ screen.view.gen_data.ArbolesTotales = 5938
        /\ 5938 * 100 <= 14847 * 40
        /\ 14847 * 40 < 5939 * 100

C8_Witness ==
    /\ OnPage(PanelDeControl)
    /\ previous.page = ReportesISO
    /\ \E i \in 1..Len(screen.view.df_reg) :
          /\ screen.view.df_reg[i].Regional = "VRC"
          /\ screen.view.df_reg[i].Arboles = 1858
    /\ screen.view.gen_data.ArbolesTotales = 5938

\* C9: the chart's frame is the eight regions in descending order of total,
\* VRC, VRO, GGS, CATENARE, GOR, VAO, GRB, CEDI, and the detail table keeps
\* the original order.
C9_SortedDescending ==
    OnPage(PanelDeControl) =>
        /\ Column(screen.view.df_reg_sorted, "Regional")
              = <<"VRC", "VRO", "GGS", "CATENARE", "GOR", "VAO", "GRB", "CEDI">>
        /\ Column(screen.view.df_reg_sorted, "Total")
              = <<4646, 3631, 2834, 1425, 1316, 907, 50, 38>>
        /\ {screen.view.df_reg_sorted[i] : i \in 1..Len(screen.view.df_reg_sorted)}
              = {screen.view.df_reg[i] : i \in 1..Len(screen.view.df_reg)}
        /\ Len(screen.view.df_reg_sorted) = Len(screen.view.df_reg)
        /\ Column(screen.view.df_reg, "Regional") = RegionOrder

C9_Witness ==
    /\ OnPage(PanelDeControl)
    /\ previous.page = GestorDeFactores
    /\ screen.view.df_reg_sorted[1].Regional = "VRC"
    /\ screen.view.df_reg[1].Regional = "GRB"

\* C10: the total footprint of the general indicators, 148.47, is the sum
\* of the totals of the eight regions.
C10_FootprintIsSum ==
    OnPage(PanelDeControl) =>
        /\ Len(screen.view.df_reg) = 8
        /\ screen.view.gen_data.HuellaTotal = 14847
        /\ screen.view.gen_data.HuellaTotal
              = SumSeq(Column(screen.view.df_reg, "Total"))

C10_Witness ==
    /\ OnPage(PanelDeControl)
    /\ previous.page = IngenieriaDePreguntas
    /\ Len(screen.view.df_reg) = 8
    /\ screen.view.gen_data.HuellaTotal = 14847

====
